---- MODULE Spec2Model ----
(***************************************************************************)
(* The tiered gas meter of moveos/moveos/src/gas/table.rs: the cost        *)
(* schedule (CostTable), the meter (MoveOSGasMeter), its charge engine and *)
(* the GasMeter / ClassifiedGasMeter / SwitchableGasMeter entry points.    *)
(*                                                                         *)
(* Machine words.  The meter's quantities are u64.  TLC's integers are     *)
(* 32-bit, so the word is modelled at a reduced width: MaxU64 stands for   *)
(* u64::MAX, every checked operation is checked against MaxU64 and every   *)
(* unchecked one wraps modulo MaxU64 + 1.  The schedule's breakpoints and  *)
(* multipliers keep their source values; MaxU64 is far above all of them.  *)
(***************************************************************************)
EXTENDS Integers, Sequences, FiniteSets, TLC

\* Model bound standing for u64::MAX (2^29 - 1, so that sums of three words fit TLC).
MaxU64 == 536870911

\* Number of meter calls of an arbitrary call sequence.
MaxOps == 2

\* Number of calls of the load loop (budget 1000, cost 10 per call).
MaxLoadCalls == 102

\* Number of calls of the branch loop (unit instruction charges).
MaxBranchCalls == 3002

\* Largest key of the tier tables the lookup is tried on.
MaxTierKey == 3

\* Number of calls of the unmetered loop (one-push, size-1 loads after stop_metering).
MaxUnmeteredCalls == 100

\* Largest stack size the initial schedule's stack-size tier is looked up at
\* (its last breakpoint is 20000), u64::MAX apart.
MaxStackSize == 20001

INSTRUCTION_TIER_DEFAULT == 1
STACK_HEIGHT_TIER_DEFAULT == 1
STACK_SIZE_TIER_DEFAULT == 1

REFERENCE_SIZE == 8
STRUCT_SIZE == 2
VEC_SIZE == 8

----------------------------------------------------------------------------
(* Option<u64> *)

None == [some |-> FALSE, v |-> 0]
Some(x) == [some |-> TRUE, v |-> x]

SetMax(S) == CHOOSE x \in S : \A y \in S : y <= x
SetMin(S) == CHOOSE x \in S : \A y \in S : x <= y

----------------------------------------------------------------------------
(* u64 arithmetic *)

\* checked_add: None on overflow.
checked_add(a, b) == IF a > MaxU64 - b THEN None ELSE Some(a + b)

\* checked_mul: None on overflow.
checked_mul(a, b) == IF b # 0 /\ a > MaxU64 \div b THEN None ELSE Some(a * b)

\* checked_sub: None on underflow.
checked_sub(a, b) == IF a < b THEN None ELSE Some(a - b)

saturating_sub(a, b) == IF a < b THEN 0 ELSE a - b

\* The `+` of u64 (std::ops::Add): with overflow checks compiled in it panics
\* on overflow, without them it wraps.
unchecked_add(a, b, overflow_checks) ==
    IF a > MaxU64 - b
    THEN [panic |-> overflow_checks, v |-> a - (MaxU64 - b) - 1]
    ELSE [panic |-> FALSE, v |-> a + b]

----------------------------------------------------------------------------
(* CostTable *)

\* A map in which the first pair with a key is the one that stays.
collect_first(pairs) ==
    [k \in {pairs[i][1] : i \in DOMAIN pairs} |->
        pairs[SetMin({i \in DOMAIN pairs : pairs[i][1] = k})][2]]

\* BTreeMap<u64, u64> built by collect(): a later pair overwrites an earlier
\* pair with the same key.
collect(pairs) ==
    [k \in {pairs[i][1] : i \in DOMAIN pairs} |->
        pairs[SetMax({i \in DOMAIN pairs : pairs[i][1] = k})][2]]

\* get_current_and_future_tier without the exact-key lookup tiers.get(&current).
get_current_and_future_tier_below(tiers, current, default) ==
    LET below == {k \in DOMAIN tiers : k < current}
        above == {k \in DOMAIN tiers : k > current}
        current_cost == IF below # {} THEN tiers[SetMax(below)] ELSE default
        next_tier_start == IF above = {} THEN None ELSE Some(SetMin(above))
    IN <<current_cost, next_tier_start>>

get_current_and_future_tier(tiers, current, default) ==
    LET below == {k \in DOMAIN tiers : k < current}
        above == {k \in DOMAIN tiers : k > current}
        current_cost == IF current \in DOMAIN tiers
                        THEN tiers[current]
                        ELSE IF below # {} THEN tiers[SetMax(below)] ELSE default
        next_tier_start == IF above = {} THEN None ELSE Some(SetMin(above))
    IN <<current_cost, next_tier_start>>

initial_cost_schedule ==
    [instruction_tiers |-> collect(<< <<0, 1>>, <<3000, 2>>, <<6000, 3>>, <<8000, 5>>,
                                      <<9000, 9>>, <<9500, 16>>, <<10000, 29>>,
                                      <<10500, 50>>, <<15000, 100>> >>),
     stack_height_tiers |-> collect(<< <<0, 1>>, <<400, 2>>, <<800, 3>>, <<1200, 5>>,
                                       <<1500, 9>>, <<1800, 16>>, <<2000, 29>>,
                                       <<2200, 50>>, <<5000, 100>> >>),
     stack_size_tiers |-> collect(<< <<0, 1>>, <<2000, 2>>, <<5000, 3>>, <<8000, 5>>,
                                     <<10000, 9>>, <<11000, 16>>, <<11500, 29>>,
                                     <<11500, 50>>, <<20000, 100>> >>)]

\* A schedule whose single tier has multiplier 1 instead of 0.
unit_cost_schedule ==
    [instruction_tiers |-> collect(<< <<0, 1>> >>),
     stack_height_tiers |-> collect(<< <<0, 1>> >>),
     stack_size_tiers |-> collect(<< <<0, 1>> >>)]

zero_tier == collect(<< <<0, 0>> >>)

zero_cost_schedule ==
    [instruction_tiers |-> zero_tier,
     stack_height_tiers |-> zero_tier,
     stack_size_tiers |-> zero_tier]

\* A schedule is immutable once built, so the meter's cost_table field holds
\* the name of its schedule and CostTable gives the schedule of that name.
CostTable(name) ==
    CASE name = "initial" -> initial_cost_schedule
      [] name = "zero" -> zero_cost_schedule

instruction_tier(cost_table, instr_count) ==
    get_current_and_future_tier(CostTable(cost_table).instruction_tiers, instr_count,
                                INSTRUCTION_TIER_DEFAULT)

stack_height_tier(cost_table, stack_height) ==
    get_current_and_future_tier(CostTable(cost_table).stack_height_tiers, stack_height,
                                STACK_HEIGHT_TIER_DEFAULT)

stack_size_tier(cost_table, stack_size) ==
    get_current_and_future_tier(CostTable(cost_table).stack_size_tiers, stack_size,
                                STACK_SIZE_TIER_DEFAULT)

ZERO_COST_SCHEDULE == "zero"

----------------------------------------------------------------------------
(* GasCost *)

GasCost_new(instruction_gas, memory_gas, stack_height_gas) ==
    [instruction_gas |-> instruction_gas,
     memory_gas |-> memory_gas,
     stack_height_gas |-> stack_height_gas]

\* instruction_gas.add(memory_gas).add(stack_height_gas): two unchecked additions.
total_internal(gas_cost, overflow_checks) ==
    LET s1 == unchecked_add(gas_cost.instruction_gas, gas_cost.memory_gas, overflow_checks)
        s2 == unchecked_add(s1.v, gas_cost.stack_height_gas, overflow_checks)
    IN [panic |-> s1.panic \/ s2.panic, v |-> s2.v]

----------------------------------------------------------------------------
(* MoveOSGasMeter *)

new(cost_table, budget) ==
    LET h == stack_height_tier(cost_table, 0)
        s == stack_size_tier(cost_table, 0)
        i == instruction_tier(cost_table, 0)
    IN [cost_table |-> cost_table,
        gas_left |-> budget,
        charge |-> TRUE,
        execution_gas_used |-> 0,
        storage_gas_used |-> 0,
        stack_height_high_water_mark |-> 0,
        stack_height_current |-> 0,
        stack_height_next_tier_start |-> h[2],
        stack_height_current_tier_mult |-> h[1],
        stack_size_high_water_mark |-> 0,
        stack_size_current |-> 0,
        stack_size_next_tier_start |-> s[2],
        stack_size_current_tier_mult |-> s[1],
        instructions_executed |-> 0,
        instructions_next_tier_start |-> i[2],
        instructions_current_tier_mult |-> i[1]]

new_unmetered ==
    [cost_table |-> ZERO_COST_SCHEDULE,
     gas_left |-> 0,
     charge |-> FALSE,
     execution_gas_used |-> 0,
     storage_gas_used |-> 0,
     stack_height_high_water_mark |-> 0,
     stack_height_current |-> 0,
     stack_height_next_tier_start |-> None,
     stack_height_current_tier_mult |-> 0,
     stack_size_high_water_mark |-> 0,
     stack_size_current |-> 0,
     stack_size_next_tier_start |-> None,
     stack_size_current_tier_mult |-> 0,
     instructions_executed |-> 0,
     instructions_next_tier_start |-> None,
     instructions_current_tier_mult |-> 0]

\* The outcome of a method on &mut self: the status it returns, the value it
\* returns on success, and the meter it leaves behind.
Ret(err, val, m) == [err |-> err, val |-> val, m |-> m]

\* push_stack that sets the high-water mark to the new height whatever the mark was.
push_stack_mark_overwritten(m, pushes) ==
    LET sum == checked_add(m.stack_height_current, pushes)
    IN IF ~sum.some
       THEN Ret("ARITHMETIC_ERROR", 0, m)
       ELSE LET m1 == [m EXCEPT !.stack_height_high_water_mark = sum.v,
                                !.stack_height_current = sum.v]
                t == stack_height_tier(m1.cost_table, m1.stack_height_current)
                m2 == IF m1.stack_height_next_tier_start.some
                         /\ m1.stack_height_current > m1.stack_height_next_tier_start.v
                      THEN [m1 EXCEPT !.stack_height_current_tier_mult = t[1],
                                      !.stack_height_next_tier_start = t[2]]
                      ELSE m1
            IN Ret("OK", 0, m2)

\* push_stack that keeps the cached tier when the height passes
\* stack_height_next_tier_start.
push_stack_stale(m, pushes) ==
    LET sum == checked_add(m.stack_height_current, pushes)
    IN IF ~sum.some
       THEN Ret("ARITHMETIC_ERROR", 0, m)
       ELSE Ret("OK", 0, [m EXCEPT !.stack_height_high_water_mark =
                                       IF sum.v > @ THEN sum.v ELSE @,
                                   !.stack_height_current = sum.v])

\* push_stack with a wrapping addition in place of the checked one.
push_stack_wrapping(m, pushes) ==
    LET new_height == (m.stack_height_current + pushes) % (MaxU64 + 1)
        m1 == [m EXCEPT !.stack_height_high_water_mark =
                            IF new_height > @ THEN new_height ELSE @,
                        !.stack_height_current = new_height]
        t == stack_height_tier(m1.cost_table, m1.stack_height_current)
        m2 == IF m1.stack_height_next_tier_start.some
                 /\ m1.stack_height_current > m1.stack_height_next_tier_start.v
              THEN [m1 EXCEPT !.stack_height_current_tier_mult = t[1],
                              !.stack_height_next_tier_start = t[2]]
              ELSE m1
    IN Ret("OK", 0, m2)

push_stack(m, pushes) ==
    LET sum == checked_add(m.stack_height_current, pushes)
    IN IF ~sum.some
       THEN Ret("ARITHMETIC_ERROR", 0, m)
       ELSE LET new_height == sum.v
                m1 == [m EXCEPT !.stack_height_high_water_mark =
                                    IF new_height > @ THEN new_height ELSE @,
                                !.stack_height_current = new_height]
                t == stack_height_tier(m1.cost_table, m1.stack_height_current)
                m2 == IF m1.stack_height_next_tier_start.some
                         /\ m1.stack_height_current > m1.stack_height_next_tier_start.v
                      THEN [m1 EXCEPT !.stack_height_current_tier_mult = t[1],
                                      !.stack_height_next_tier_start = t[2]]
                      ELSE m1
            IN Ret("OK", 0, m2)

\* increase_instruction_count that keeps the cached multiplier when the count
\* passes instructions_next_tier_start.
increase_instruction_count_stale(m, amount) ==
    LET sum == checked_add(m.instructions_executed, amount)
    IN IF ~sum.some
       THEN Ret("ARITHMETIC_ERROR", 0, m)
       ELSE Ret("OK", 0, [m EXCEPT !.instructions_executed = sum.v])

increase_instruction_count(m, amount) ==
    LET sum == checked_add(m.instructions_executed, amount)
    IN IF ~sum.some
       THEN Ret("ARITHMETIC_ERROR", 0, m)
       ELSE LET m1 == [m EXCEPT !.instructions_executed = sum.v]
                t == instruction_tier(m1.cost_table, m1.instructions_executed)
                m2 == IF m1.instructions_next_tier_start.some
                         /\ m1.instructions_executed > m1.instructions_next_tier_start.v
                      THEN [m1 EXCEPT !.instructions_current_tier_mult = t[1],
                                      !.instructions_next_tier_start = t[2]]
                      ELSE m1
            IN Ret("OK", 0, m2)

\* increase_stack_size that keeps the cached multiplier when the size passes
\* stack_size_next_tier_start.
increase_stack_size_stale(m, size_amount) ==
    LET sum == checked_add(m.stack_size_current, size_amount)
    IN IF ~sum.some
       THEN Ret("ARITHMETIC_ERROR", 0, m)
       ELSE Ret("OK", 0, [m EXCEPT !.stack_size_high_water_mark =
                                       IF sum.v > @ THEN sum.v ELSE @,
                                   !.stack_size_current = sum.v])

increase_stack_size(m, size_amount) ==
    LET sum == checked_add(m.stack_size_current, size_amount)
    IN IF ~sum.some
       THEN Ret("ARITHMETIC_ERROR", 0, m)
       ELSE LET new_size == sum.v
                m1 == [m EXCEPT !.stack_size_high_water_mark =
                                    IF new_size > @ THEN new_size ELSE @,
                                !.stack_size_current = new_size]
                t == stack_size_tier(m1.cost_table, m1.stack_size_current)
                m2 == IF m1.stack_size_next_tier_start.some
                         /\ m1.stack_size_current > m1.stack_size_next_tier_start.v
                      THEN [m1 EXCEPT !.stack_size_current_tier_mult = t[1],
                                      !.stack_size_next_tier_start = t[2]]
                      ELSE m1
            IN Ret("OK", 0, m2)

\* pop_stack that looks the height tier up again at the lowered height.
pop_stack_requery(m, pops) ==
    LET h == saturating_sub(m.stack_height_current, pops)
        t == stack_height_tier(m.cost_table, h)
    IN [m EXCEPT !.stack_height_current = h,
                 !.stack_height_current_tier_mult = t[1],
                 !.stack_height_next_tier_start = t[2]]

\* pop_stack with a wrapping subtraction in place of the saturating one.
pop_stack_wrapping(m, pops) ==
    [m EXCEPT !.stack_height_current = (@ + (MaxU64 + 1) - pops) % (MaxU64 + 1)]

pop_stack(m, pops) ==
    [m EXCEPT !.stack_height_current = saturating_sub(@, pops)]

\* deduct_gas that runs out of gas when the amount equals gas_left.
deduct_gas_strict(m, amount) ==
    IF ~m.charge
    THEN Ret("OK", 0, m)
    ELSE IF m.gas_left > amount
         THEN Ret("OK", 0, [m EXCEPT !.gas_left = m.gas_left - amount])
         ELSE Ret("OUT_OF_GAS", 0, [m EXCEPT !.gas_left = 0])

\* deduct_gas that leaves gas_left as it was when it runs out of gas.
deduct_gas_unzeroed(m, amount) ==
    IF ~m.charge
    THEN Ret("OK", 0, m)
    ELSE LET left == checked_sub(m.gas_left, amount)
         IN IF left.some
            THEN Ret("OK", 0, [m EXCEPT !.gas_left = left.v])
            ELSE Ret("OUT_OF_GAS", 0, m)

\* deduct_gas with a wrapping subtraction in place of the checked one.
deduct_gas_wrapping(m, amount) ==
    IF ~m.charge
    THEN Ret("OK", 0, m)
    ELSE Ret("OK", 0, [m EXCEPT !.gas_left = (m.gas_left + (MaxU64 + 1) - amount)
                                                % (MaxU64 + 1)])

\* deduct_gas that takes the amount whether or not metering is on.
deduct_gas_always(m, amount) ==
    LET left == checked_sub(m.gas_left, amount)
    IN IF left.some
       THEN Ret("OK", 0, [m EXCEPT !.gas_left = left.v])
       ELSE Ret("OUT_OF_GAS", 0, [m EXCEPT !.gas_left = 0])

\* deduct_gas that checks the amount against gas_left without taking it.
deduct_gas_untaken(m, amount) ==
    IF ~m.charge
    THEN Ret("OK", 0, m)
    ELSE IF checked_sub(m.gas_left, amount).some
         THEN Ret("OK", 0, m)
         ELSE Ret("OUT_OF_GAS", 0, [m EXCEPT !.gas_left = 0])

deduct_gas(m, amount) ==
    IF ~m.charge
    THEN Ret("OK", 0, m)
    ELSE LET left == checked_sub(m.gas_left, amount)
         IN IF left.some
            THEN Ret("OK", 0, [m EXCEPT !.gas_left = left.v])
            ELSE Ret("OUT_OF_GAS", 0, [m EXCEPT !.gas_left = 0])

\* charge, from the products on, with the pops applied before the deduction.
charge_priced_pops_first(m, ig, mg, hg, pops, overflow_checks) ==
    IF ~ig.some \/ ~mg.some \/ ~hg.some
    THEN Ret("ARITHMETIC_ERROR", 0, m)
    ELSE LET tot == total_internal(GasCost_new(ig.v, mg.v, hg.v), overflow_checks)
         IN IF tot.panic
            THEN Ret("PANIC", 0, m)
            ELSE LET r == deduct_gas(pop_stack(m, pops), tot.v)
                 IN Ret(r.err, tot.v, r.m)

\* charge, from the products on: the three checked products, the unchecked
\* total, the deduction and the pops.  `m` is the meter after the counter phases.
charge_priced(m, ig, mg, hg, pops, overflow_checks) ==
    IF ~ig.some \/ ~mg.some \/ ~hg.some
    THEN Ret("ARITHMETIC_ERROR", 0, m)
    ELSE LET tot == total_internal(GasCost_new(ig.v, mg.v, hg.v), overflow_checks)
         IN IF tot.panic
            THEN Ret("PANIC", 0, m)
            ELSE LET r == deduct_gas(m, tot.v)
                 IN IF r.err # "OK"
                    THEN Ret(r.err, tot.v, r.m)
                    ELSE Ret("OK", tot.v, pop_stack(r.m, pops))

\* charge, after increase_stack_size returned `r`.
charge_after_size(r, num_instructions, pushes, pops, incr_size, overflow_checks) ==
    IF r.err # "OK"
    THEN r
    ELSE charge_priced(r.m,
                       checked_mul(r.m.instructions_current_tier_mult, num_instructions),
                       checked_mul(r.m.stack_size_current_tier_mult, incr_size),
                       checked_mul(r.m.stack_height_current_tier_mult, pushes),
                       pops, overflow_checks)

\* charge, after increase_instruction_count returned `r`.
charge_after_count(r, num_instructions, pushes, pops, incr_size, overflow_checks) ==
    IF r.err # "OK"
    THEN r
    ELSE charge_after_size(increase_stack_size(r.m, incr_size), num_instructions, pushes,
                           pops, incr_size, overflow_checks)

\* charge, after push_stack returned `r`.
charge_after_push(r, num_instructions, pushes, pops, incr_size, overflow_checks) ==
    IF r.err # "OK"
    THEN r
    ELSE charge_after_count(increase_instruction_count(r.m, num_instructions),
                            num_instructions, pushes, pops, incr_size, overflow_checks)

\* charge that restores the meter when it fails with ARITHMETIC_ERROR.
charge_rolled_back(m, num_instructions, pushes, pops, incr_size, decr_size, overflow_checks) ==
    LET r == charge_after_push(push_stack(m, pushes), num_instructions, pushes, pops,
                               incr_size, overflow_checks)
    IN IF r.err = "ARITHMETIC_ERROR" THEN Ret(r.err, r.val, m) ELSE r

\* charge with the commented-out decrease_stack_size(decr_size) put back
\* before pop_stack.
charge_size_decreased(m, num_instructions, pushes, pops, incr_size, decr_size, overflow_checks) ==
    LET r == charge_after_push(push_stack(m, pushes), num_instructions, pushes, pops,
                               incr_size, overflow_checks)
    IN IF r.err # "OK"
       THEN r
       ELSE Ret("OK", r.val,
                [r.m EXCEPT !.stack_size_current = saturating_sub(@, decr_size)])

\* charge: each `?` returns early with the meter as the completed phases left
\* it.  On OUT_OF_GAS `val` keeps the cost that was computed (the Err carries
\* none).
charge(m, num_instructions, pushes, pops, incr_size, decr_size, overflow_checks) ==
    charge_after_push(push_stack(m, pushes), num_instructions, pushes, pops, incr_size,
                      overflow_checks)

\* charge_execution that adds the cost twice.
charge_execution_doubled(m, gas_cost, overflow_checks) ==
    LET s1 == unchecked_add(m.execution_gas_used, gas_cost, overflow_checks)
        s2 == unchecked_add(s1.v, gas_cost, overflow_checks)
    IN IF s1.panic \/ s2.panic
       THEN Ret("PANIC", gas_cost, m)
       ELSE Ret("OK", gas_cost, [m EXCEPT !.execution_gas_used = s2.v])

\* charge_execution: execution_gas_used += gas_cost with the unchecked `+`.
charge_execution(m, gas_cost, overflow_checks) ==
    LET s == unchecked_add(m.execution_gas_used, gas_cost, overflow_checks)
    IN IF s.panic
       THEN Ret("PANIC", gas_cost, m)
       ELSE Ret("OK", gas_cost, [m EXCEPT !.execution_gas_used = s.v])

charge_internal_execution(m, num_instructions, pushes, pops, incr_size, decr_size, overflow_checks) ==
    LET charge_result == charge(m, num_instructions, pushes, pops, incr_size, decr_size,
                                overflow_checks)
    IN IF charge_result.err = "OK"
       THEN charge_execution(charge_result.m, charge_result.val, overflow_checks)
       ELSE charge_result

----------------------------------------------------------------------------
(* Operand views.  The sizes the VM's ValueView / TypeView report are inputs. *)

\* Type::size() of the VM's primitive types, in abstract memory units.
TypeSize(ty) ==
    CASE ty = "Bool" -> 1
      [] ty = "U8" -> 1
      [] ty = "U16" -> 2
      [] ty = "U32" -> 4
      [] ty = "U64" -> 8
      [] ty = "U128" -> 16
      [] ty = "U256" -> 32
      [] ty = "Address" -> 32

\* AbstractMemorySize + AbstractMemorySize (saturating in the gas algebra).
size_add(a, b) == IF a > MaxU64 - b THEN MaxU64 ELSE a + b

\* args.fold(seed, |acc, elem| acc + elem.legacy_abstract_memory_size())
RECURSIVE fold_sizes(_, _)
fold_sizes(seed, sizes) ==
    IF sizes = << >>
    THEN seed
    ELSE fold_sizes(size_add(seed, Head(sizes)), Tail(sizes))

SimpleInstruction ==
    {"Nop", "Ret", "LdU8", "LdU16", "LdU32", "LdU64", "LdU128", "LdU256", "LdTrue",
     "LdFalse", "FreezeRef", "ImmBorrowLoc", "MutBorrowLoc", "ImmBorrowField",
     "MutBorrowField", "ImmBorrowFieldGeneric", "MutBorrowFieldGeneric", "CastU8",
     "CastU16", "CastU32", "CastU64", "CastU128", "CastU256", "Add", "Sub", "Mul",
     "Mod", "Div", "BitOr", "BitAnd", "Xor", "Shl", "Shr", "Or", "And", "Lt", "Gt",
     "Le", "Ge", "Not", "Abort"}

\* <<pops, pushes, pop_size, push_size>>
get_simple_instruction_stack_change(instr) ==
    CASE instr \in {"Nop", "Ret"} -> <<0, 0, 0, 0>>
      [] instr = "LdU8" -> <<0, 1, 0, TypeSize("U8")>>
      [] instr = "LdU16" -> <<0, 1, 0, TypeSize("U16")>>
      [] instr = "LdU32" -> <<0, 1, 0, TypeSize("U32")>>
      [] instr = "LdU64" -> <<0, 1, 0, TypeSize("U64")>>
      [] instr = "LdU128" -> <<0, 1, 0, TypeSize("U128")>>
      [] instr = "LdU256" -> <<0, 1, 0, TypeSize("U256")>>
      [] instr \in {"LdTrue", "LdFalse"} -> <<0, 1, 0, TypeSize("Bool")>>
      [] instr = "FreezeRef" -> <<1, 1, REFERENCE_SIZE, REFERENCE_SIZE>>
      [] instr \in {"ImmBorrowLoc", "MutBorrowLoc"} -> <<0, 1, 0, REFERENCE_SIZE>>
      [] instr \in {"ImmBorrowField", "MutBorrowField", "ImmBorrowFieldGeneric",
                    "MutBorrowFieldGeneric"} -> <<1, 1, REFERENCE_SIZE, REFERENCE_SIZE>>
      [] instr = "CastU8" -> <<1, 1, TypeSize("U8"), TypeSize("U8")>>
      [] instr = "CastU16" -> <<1, 1, TypeSize("U8"), TypeSize("U16")>>
      [] instr = "CastU32" -> <<1, 1, TypeSize("U8"), TypeSize("U32")>>
      [] instr = "CastU64" -> <<1, 1, TypeSize("U8"), TypeSize("U64")>>
      [] instr = "CastU128" -> <<1, 1, TypeSize("U8"), TypeSize("U128")>>
      [] instr = "CastU256" -> <<1, 1, TypeSize("U8"), TypeSize("U256")>>
      [] instr \in {"Add", "Sub", "Mul", "Mod", "Div", "BitOr", "BitAnd", "Xor", "Shl",
                    "Shr"} ->
             <<2, 1, size_add(TypeSize("U8"), TypeSize("U8")), TypeSize("U256")>>
      [] instr \in {"Or", "And"} ->
             <<2, 1, size_add(TypeSize("Bool"), TypeSize("Bool")), TypeSize("Bool")>>
      [] instr \in {"Lt", "Gt", "Le", "Ge"} ->
             <<2, 1, size_add(TypeSize("U8"), TypeSize("U8")), TypeSize("Bool")>>
      [] instr = "Not" -> <<1, 1, TypeSize("Bool"), TypeSize("Bool")>>
      [] instr = "Abort" -> <<1, 0, TypeSize("U64"), 0>>

----------------------------------------------------------------------------
(* The meter in use.                                                       *)

VARIABLES
    meter,            \* the MoveOSGasMeter
    budget,           \* the budget the meter was constructed with
    overflow_checks,  \* whether the build panics on an overflowing `+`
    driver,           \* who calls the meter: see Init
    nops,             \* the number of calls made so far
    last,             \* the last call: its inputs, its outcome, the meter before
                      \* and after it
    hist,             \* the history of the calls: see HistInit
    lookup,           \* the tier lookup being made, when a table is looked up on
                      \* its own: see TierInit
    replica           \* a second meter, built alike and given the same calls by
                      \* the "replicas" driver: the meter, its last outcome, its build

vars == <<meter, budget, overflow_checks, driver, nops, last, hist, lookup, replica>>

\* A delta large enough that two products at the top multiplier (100) overflow
\* only when added.
Big == MaxU64 \div 100

\* The <<schedule, budget>> pairs meters are constructed with.
Configs ==
    {<<"initial", 10>>, <<"initial", MaxU64>>, <<"zero", 0>>, <<"zero", 1000>>}

NoArgs == <<0, 0, 0, 0, 0>>

\* No table is being looked up on its own.
NoLookup ==
    [tiers |-> << >>, current |-> 0, default |-> 0, called |-> FALSE,
     out |-> <<0, None>>]

HistInit ==
    [fails |-> 0,            \* the number of calls that have failed
     sum_cost |-> 0,         \* sum of the costs returned by successful charges made
                             \* with metering on
     sum_amount |-> 0,       \* sum of the native amounts deducted by successful calls
                             \* made with metering on
     sum_height |-> 0,       \* pushes minus saturating pops of the successful charges
     sum_size |-> 0,         \* size_in minus saturating size_out of the successful charges
     sum_size_in |-> 0,      \* size_in of the successful charges
     max_height |-> 0,       \* the largest value stack_height_current has taken
     max_size |-> 0,         \* the largest value stack_size_current has taken
     metered |-> TRUE,       \* every call so far was made with metering on
     natives |-> 0]          \* the number of charge_native_function calls made

Max2(a, b) == IF a > b THEN a ELSE b

\* The history after a call `op` with the deltas `args` (<<instr, pushes, pops,
\* size_in, size_out>>) and native amount `amount` that ended as `r`.
HistNext(op, args, amount, r) ==
    LET ok == r.err = "OK"
        on == meter.charge
        pushed == push_stack(meter, args[2])
    IN [fails |-> IF ok THEN hist.fails ELSE hist.fails + 1,
        sum_cost |-> IF ok /\ on THEN hist.sum_cost + r.val ELSE hist.sum_cost,
        sum_amount |-> IF ok /\ on THEN hist.sum_amount + amount ELSE hist.sum_amount,
        sum_height |-> IF ok THEN saturating_sub(hist.sum_height + args[2], args[3])
                       ELSE hist.sum_height,
        sum_size |-> IF ok THEN saturating_sub(hist.sum_size + args[4], args[5])
                     ELSE hist.sum_size,
        sum_size_in |-> IF ok THEN hist.sum_size_in + args[4] ELSE hist.sum_size_in,
        max_height |-> Max2(Max2(hist.max_height, pushed.m.stack_height_current),
                            r.m.stack_height_current),
        max_size |-> Max2(hist.max_size, r.m.stack_size_current),
        metered |-> hist.metered /\ on,
        natives |-> IF op = "native" THEN hist.natives + 1 ELSE hist.natives]

\* The replica is built by the same constructor call; its build has overflow
\* checks or not.
ReplicaInit(checks) == [m |-> meter, err |-> "OK", cost |-> 0, checks |-> checks]

LastInit ==
    [op |-> "new", args |-> NoArgs, amount |-> 0, err |-> "OK", cost |-> 0,
     pre |-> meter, post |-> meter]

\* Meters as the two constructors build them.  The "engine" driver calls
\* charge directly with arbitrary deltas; the "vm" driver calls the GasMeter
\* entry points; "load_loop" and "branch_loop" repeat one entry point on the
\* initial schedule; "unmetered_loop" stops metering and repeats
\* charge_simple_instr(LdU8); "native_call" loads two operands and makes the
\* two charges of one native call; "replicas" gives the same charges and
\* toggles to two meters built alike.
Init ==
    /\ overflow_checks \in BOOLEAN
    /\ \/ /\ driver \in {"engine", "vm", "replicas"}
          /\ \/ \E c \in Configs :
                    /\ budget = c[2]
                    /\ meter = new(c[1], budget)
             \/ /\ budget = 0
                /\ meter = new_unmetered
       \/ /\ driver = "load_loop"
          /\ budget = 1000
          /\ meter = new("initial", budget)
       \/ /\ driver = "branch_loop"
          /\ budget = 10000000
          /\ meter = new("initial", budget)
       \/ /\ driver = "unmetered_loop"
          /\ budget = 10
          /\ meter = new("initial", budget)
       \/ /\ driver = "native_call"
          /\ budget = 1000
          /\ meter = new("initial", budget)
    /\ nops = 0
    /\ last = LastInit
    /\ hist = HistInit
    /\ lookup = NoLookup
    /\ \E checks \in IF driver = "replicas" THEN BOOLEAN ELSE {overflow_checks} :
           replica = ReplicaInit(checks)

\* A panic unwinds the thread that owns the meter: nothing is called after it.
Alive == last.err # "PANIC"

CallLimit ==
    CASE driver = "load_loop" -> MaxLoadCalls
      [] driver = "branch_loop" -> MaxBranchCalls
      [] driver = "unmetered_loop" -> MaxUnmeteredCalls
      [] driver = "native_call" -> 4
      [] OTHER -> MaxOps

CanCall == Alive /\ nops < CallLimit

\* One call `op` with deltas `args` that ended as `r`.
Call(op, args, amount, r) ==
    /\ meter' = r.m
    /\ last' = [op |-> op, args |-> args, amount |-> amount, err |-> r.err,
                cost |-> r.val, pre |-> meter, post |-> r.m]
    /\ nops' = nops + 1
    /\ hist' = HistNext(op, args, amount, r)
    /\ UNCHANGED <<budget, overflow_checks, driver, lookup>>

\* A call the replica is not given.
Step(op, args, amount, r) ==
    /\ Call(op, args, amount, r)
    /\ UNCHANGED replica

\* The replica after charge with deltas `a`; a replica that panicked is gone.
ReplicaCharge(a) ==
    IF replica.err = "PANIC"
    THEN replica
    ELSE LET r == charge(replica.m, a[1], a[2], a[3], a[4], a[5], replica.checks)
         IN [m |-> r.m, err |-> r.err, cost |-> r.val, checks |-> replica.checks]

(* The charge engine, called directly. *)

\* <<num_instructions, pushes, pops, incr_size, decr_size>>
ChargeInputs ==
    {<<n, 0, 0, 0, 0>> : n \in {0, 1, 3000, Big, MaxU64}}
    \cup {<<0, p, q, 0, 0>> : p \in {1, 400, 401, MaxU64}, q \in {0, 500}}
    \cup {<<0, 0, 0, s, 0>> : s \in {8, 2000, 12000, Big, MaxU64}}
    \cup {<<0, 0, 1, 0, 0>>, <<0, 0, 0, 8, 8>>, <<1, 1, 0, 8, 0>>, <<1, 1, 1, 8, 8>>,
          <<Big, 0, 0, Big, 0>>, <<Big, Big, 0, Big, 0>>}

\* The charges given to a meter and its replica.
ReplicaInputs ==
    {<<1, 1, 1, 8, 8>>, <<0, 400, 500, 0, 0>>, <<3000, 0, 0, 0, 0>>,
     <<Big, 0, 0, Big, 0>>, <<MaxU64, 0, 0, 0, 0>>}

Charge ==
    /\ driver \in {"engine", "replicas"}
    /\ CanCall
    /\ \E a \in IF driver = "engine" THEN ChargeInputs ELSE ReplicaInputs :
           /\ Call("charge", a, 0,
                   charge(meter, a[1], a[2], a[3], a[4], a[5], overflow_checks))
           /\ replica' = IF driver = "replicas" THEN ReplicaCharge(a) ELSE replica

(* SwitchableGasMeter *)

\* set_metering / stop_metering / start_metering: not a charge, so `last` and
\* `nops` keep describing the charging calls.  The engine driver switches at
\* any time, and so does the replicas driver; the vm driver and the
\* unmetered loop switch before their first call.
set_metering(enabled) ==
    /\ driver \in {"engine", "replicas"}
       \/ (driver \in {"vm", "unmetered_loop"} /\ nops = 0)
    /\ Alive
    /\ meter' = [meter EXCEPT !.charge = enabled]
    /\ replica' = [replica EXCEPT !.m.charge = enabled]
    /\ UNCHANGED <<budget, overflow_checks, driver, nops, last, hist, lookup>>

stop_metering == set_metering(FALSE)

start_metering == set_metering(TRUE)

(* GasMeter: the entry points the VM calls. *)

\* Operand views the VM passes: the abstract sizes of values, the lists of
\* argument sizes, the constants' byte sizes and the element counts.
Instructions ==
    {"Nop", "LdU8", "LdU64", "FreezeRef", "ImmBorrowLoc", "CastU64", "Add", "And", "Lt",
     "Not", "Abort"}
ValueSizes == {8}
ArgSizes == {<< >>, <<8, 8>>}
ConstSizes == {8, Big, MaxU64}
ElementCounts == {2, MaxU64}
NativeAmounts == {0, 500}

RetNone == [some |-> FALSE, sizes |-> << >>]
RetSome(sizes) == [some |-> TRUE, sizes |-> sizes]
RetVals == {RetNone, RetSome(<<8>>), RetSome(<<8, MaxU64>>)}

\* An entry point that forwards to charge_internal_execution; `op` is what
\* `last` records it as.
FacadeAs(op, num_instructions, pushes, pops, incr_size, decr_size) ==
    /\ CanCall
    /\ Step(op, <<num_instructions, pushes, pops, incr_size, decr_size>>, 0,
            charge_internal_execution(meter, num_instructions, pushes, pops, incr_size,
                                      decr_size, overflow_checks))

\* The entry points of one bytecode instruction are recorded alike, as
\* "execution": they differ only in the deltas they pass on.
Facade(num_instructions, pushes, pops, incr_size, decr_size) ==
    FacadeAs("execution", num_instructions, pushes, pops, incr_size, decr_size)

charge_simple_instr ==
    /\ \/ driver = "vm"
       \/ driver = "unmetered_loop" /\ ~meter.charge
    /\ \E instr \in IF driver = "vm" THEN Instructions ELSE {"LdU8"} :
           LET c == get_simple_instruction_stack_change(instr)
           IN Facade(1, c[2], c[1], c[4], c[3])

charge_br_true ==
    /\ driver = "vm"
    /\ Facade(1, 0, 0, 0, 0)

charge_br_false ==
    /\ driver = "vm"
    /\ Facade(1, 0, 0, 0, 0)

charge_branch ==
    /\ driver \in {"vm", "branch_loop"}
    /\ Facade(1, 0, 0, 0, 0)

charge_pop ==
    /\ driver = "vm"
    /\ \E popped_val \in ValueSizes : Facade(1, 0, 1, 0, popped_val)

charge_call ==
    /\ driver = "vm"
    /\ \E args \in ArgSizes :
           Facade(1, 0, Len(args), 0, fold_sizes(0, args))

charge_call_generic ==
    /\ driver = "vm"
    /\ \E args \in ArgSizes :
           Facade(1, 0, Len(args), 0, fold_sizes(0, args))

charge_ld_const ==
    /\ \/ driver = "vm" /\ \E size \in ConstSizes : Facade(1, 1, 0, size, 0)
       \/ driver = "load_loop" /\ Facade(1, 1, 0, 8, 0)
       \/ driver = "native_call" /\ nops < 2 /\ Facade(1, 1, 0, 8, 0)

charge_copy_loc ==
    /\ driver = "vm"
    /\ \E val \in ValueSizes : Facade(1, 1, 0, val, 0)

charge_move_loc ==
    /\ driver = "vm"
    /\ \E val \in ValueSizes : Facade(1, 1, 0, val, 0)

charge_store_loc ==
    /\ driver = "vm"
    /\ \E val \in ValueSizes : Facade(1, 0, 1, 0, val)

charge_pack ==
    /\ driver = "vm"
    /\ \E args \in ArgSizes : Facade(1, 1, Len(args), STRUCT_SIZE, 0)

charge_unpack ==
    /\ driver = "vm"
    /\ \E args \in ArgSizes : Facade(1, Len(args), 1, 0, STRUCT_SIZE)

charge_read_ref ==
    /\ driver = "vm"
    /\ \E ref_val \in ValueSizes :
           Facade(1, 1, 1, ref_val, REFERENCE_SIZE)

charge_write_ref ==
    /\ driver = "vm"
    /\ \E new_val \in ValueSizes, old_val \in ValueSizes :
           Facade(1, 1, 2, new_val, old_val)

charge_eq ==
    /\ driver = "vm"
    /\ \E lhs \in ValueSizes, rhs \in ValueSizes :
           LET size_reduction == size_add(lhs, rhs)
           IN Facade(1, 1, 2, size_add(TypeSize("Bool"), size_reduction),
                     size_reduction)

charge_neq ==
    /\ driver = "vm"
    /\ \E lhs \in ValueSizes, rhs \in ValueSizes :
           LET size_reduction == size_add(lhs, rhs)
           IN Facade(1, 1, 2, TypeSize("Bool"), size_reduction)

charge_borrow_global ==
    /\ driver = "vm"
    /\ Facade(1, 1, 1, REFERENCE_SIZE, TypeSize("Address"))

charge_exists ==
    /\ driver = "vm"
    /\ Facade(1, 1, 1, TypeSize("Bool"), TypeSize("Address"))

charge_move_from ==
    /\ driver = "vm"
    /\ \E size \in ValueSizes \cup {0} :
           Facade(1, 1, 1, size, TypeSize("Address"))

charge_move_to ==
    /\ driver = "vm"
    /\ Facade(1, 0, 2, 0, TypeSize("Address"))

charge_vec_pack ==
    /\ driver = "vm"
    /\ \E args \in ArgSizes : Facade(1, 1, Len(args), VEC_SIZE, 0)

charge_vec_len ==
    /\ driver = "vm"
    /\ Facade(1, 1, 1, TypeSize("U64"), REFERENCE_SIZE)

charge_vec_borrow ==
    /\ driver = "vm"
    /\ Facade(1, 1, 2, REFERENCE_SIZE,
              size_add(REFERENCE_SIZE, TypeSize("U64")))

charge_vec_push_back ==
    /\ driver = "vm"
    /\ Facade(1, 0, 2, 0, REFERENCE_SIZE)

charge_vec_pop_back ==
    /\ driver = "vm"
    /\ Facade(1, 1, 1, 0, REFERENCE_SIZE)

charge_vec_unpack ==
    /\ driver = "vm"
    /\ \E expect_num_elements \in ElementCounts :
           Facade(1, expect_num_elements, 1, 0, VEC_SIZE)

charge_vec_swap ==
    /\ driver = "vm"
    /\ Facade(1, 1, 1, 0,
              size_add(size_add(REFERENCE_SIZE, TypeSize("U64")), TypeSize("U64")))

\* charge_native_function that counts an instruction of its own.
native_function_counted(m, amount, pushes, size_increase, checks) ==
    LET c == charge(m, 1, pushes, 0, size_increase, 0, checks)
        d == deduct_gas(c.m, amount)
    IN IF c.err # "OK" THEN c ELSE Ret(d.err, c.val, d.m)

\* charge_native_function that undoes its stack charge when the amount runs
\* out of gas.
native_function_rolled_back(m, amount, pushes, size_increase, checks) ==
    LET c == charge(m, 0, pushes, 0, size_increase, 0, checks)
        d == deduct_gas(c.m, amount)
    IN IF c.err # "OK"
       THEN c
       ELSE IF d.err # "OK"
            THEN Ret(d.err, c.val, [m EXCEPT !.gas_left = 0])
            ELSE Ret(d.err, c.val, d.m)

\* charge_native_function without the deduction of `amount`.
native_function_uncharged(m, amount, pushes, size_increase, checks) ==
    charge(m, 0, pushes, 0, size_increase, 0, checks)

\* charge(0, pushes, 0, size_increase, 0)?; deduct_gas(amount)
native_function(m, amount, pushes, size_increase, checks) ==
    LET c == charge(m, 0, pushes, 0, size_increase, 0, checks)
        d == deduct_gas(c.m, amount)
    IN IF c.err # "OK" THEN c ELSE Ret(d.err, c.val, d.m)

charge_native_function ==
    /\ driver = "vm" \/ (driver = "native_call" /\ nops = 3)
    /\ CanCall
    /\ \E amount \in NativeAmounts, ret_vals \in RetVals :
           LET pushes == IF ret_vals.some THEN Len(ret_vals.sizes) ELSE 0
               size_increase == IF ret_vals.some THEN fold_sizes(0, ret_vals.sizes) ELSE 0
           IN Step("native", <<0, pushes, 0, size_increase, 0>>, amount,
                   native_function(meter, amount, pushes, size_increase, overflow_checks))

charge_native_function_before_execution ==
    /\ driver = "vm" \/ (driver = "native_call" /\ nops = 2)
    /\ \E args \in ArgSizes :
           LET pops == Len(args)
           IN FacadeAs("native_before", 1, 0, pops, 0,
                     fold_sizes(pops, args))

\* An empty body that counts one unit of storage gas.
no_charge_storage_counted(m) ==
    Ret("OK", 0, [m EXCEPT !.storage_gas_used = @ + 1])

\* The empty bodies `{}` and `Ok(())`: the call succeeds and touches no field.
no_charge(m) == Ret("OK", 0, m)

\* The entry points that charge nothing.
Hook ==
    /\ driver = "vm"
    /\ CanCall
    /\ Step("hook", NoArgs, 0, no_charge(meter))

charge_ld_const_after_deserialization == Hook

charge_load_resource == Hook

charge_drop_frame == Hook

charge_io_write == Hook

charge_change_set == Hook

Next ==
    \/ Charge
    \/ stop_metering
    \/ start_metering
    \/ charge_simple_instr
    \/ charge_br_true
    \/ charge_br_false
    \/ charge_branch
    \/ charge_pop
    \/ charge_call
    \/ charge_call_generic
    \/ charge_ld_const
    \/ charge_copy_loc
    \/ charge_move_loc
    \/ charge_store_loc
    \/ charge_pack
    \/ charge_unpack
    \/ charge_read_ref
    \/ charge_write_ref
    \/ charge_eq
    \/ charge_neq
    \/ charge_borrow_global
    \/ charge_exists
    \/ charge_move_from
    \/ charge_move_to
    \/ charge_vec_pack
    \/ charge_vec_len
    \/ charge_vec_borrow
    \/ charge_vec_push_back
    \/ charge_vec_pop_back
    \/ charge_vec_unpack
    \/ charge_vec_swap
    \/ charge_native_function
    \/ charge_native_function_before_execution
    \/ charge_ld_const_after_deserialization
    \/ charge_load_resource
    \/ charge_drop_frame
    \/ charge_io_write
    \/ charge_change_set

Spec == Init /\ [][Next]_vars

----------------------------------------------------------------------------
(* The tier lookup on its own: get_current_and_future_tier applied to small *)
(* tables, the empty one included, and stack_size_tier applied to the       *)
(* initial schedule.                                                        *)

TierKeys == 0 .. MaxTierKey
TierMults == {0, 1, 5}

\* Every BTreeMap<u64, u64> with keys in TierKeys and values in TierMults.
TierTables == UNION {[K -> TierMults] : K \in SUBSET TierKeys}

\* The defaults the three dimensions pass.
TierDefaults ==
    {INSTRUCTION_TIER_DEFAULT, STACK_HEIGHT_TIER_DEFAULT, STACK_SIZE_TIER_DEFAULT}

TierInit ==
    /\ overflow_checks = FALSE
    /\ driver = "lookup"
    /\ budget = 0
    /\ meter = new_unmetered
    /\ nops = 0
    /\ last = LastInit
    /\ hist = HistInit
    /\ \E t \in TierTables \cup {CostTable("initial").stack_size_tiers} :
           lookup = [NoLookup EXCEPT !.tiers = t]
    /\ replica = ReplicaInit(overflow_checks)

\* One call of get_current_and_future_tier(tiers, current, default).
Lookup ==
    /\ lookup.tiers \in TierTables
    /\ \E current \in 0 .. MaxTierKey + 1, default \in TierDefaults :
           lookup' = [tiers |-> lookup.tiers, current |-> current,
                      default |-> default, called |-> TRUE,
                      out |-> get_current_and_future_tier(lookup.tiers, current,
                                                          default)]
    /\ UNCHANGED <<meter, budget, overflow_checks, driver, nops, last, hist, replica>>

\* One call of stack_size_tier(stack_size) on the initial schedule.
StackSizeLookup ==
    /\ lookup.tiers = CostTable("initial").stack_size_tiers
    /\ ~lookup.called
    /\ \E stack_size \in (0 .. MaxStackSize) \cup {MaxU64} :
           lookup' = [tiers |-> lookup.tiers,
                      current |-> stack_size,
                      default |-> STACK_SIZE_TIER_DEFAULT,
                      called |-> TRUE,
                      out |-> stack_size_tier("initial", stack_size)]
    /\ UNCHANGED <<meter, budget, overflow_checks, driver, nops, last, hist, replica>>

TierNext ==
    \/ Lookup
    \/ StackSizeLookup

TierSpec == TierInit /\ [][TierNext]_vars

----------------------------------------------------------------------------
(* Properties. *)

\* The calls that run charge once: charge itself and the entry points that
\* forward to charge_internal_execution.
ChargeOps == {"charge", "execution", "native_before"}

\* The meter after the three counter phases of a charge with deltas `a` on
\* meter `m`, a phase that overflows leaving its counter as it was.
Counted(m, a) ==
    increase_stack_size(
        increase_instruction_count(push_stack(m, a[2]).m, a[1]).m, a[4]).m

\* A counter addition of a charge with deltas `a` on meter `m` overflows.
CounterOverflows(m, a) ==
    \/ m.stack_height_current > MaxU64 - a[2]
    \/ m.instructions_executed > MaxU64 - a[1]
    \/ m.stack_size_current > MaxU64 - a[4]

\* One of the three products of that charge overflows.
ProductOverflows(m, a) ==
    LET c == Counted(m, a)
    IN \/ ~checked_mul(c.instructions_current_tier_mult, a[1]).some
       \/ ~checked_mul(c.stack_size_current_tier_mult, a[4]).some
       \/ ~checked_mul(c.stack_height_current_tier_mult, a[2]).some

\* The sum of the three products, as an unbounded integer.
ExactCost(m, a) ==
    LET c == Counted(m, a)
    IN c.instructions_current_tier_mult * a[1]
       + c.stack_size_current_tier_mult * a[4]
       + c.stack_height_current_tier_mult * a[2]

\* C1: in every reachable state, for each of the three counters, the cached
\* current_tier_mult equals the multiplier the schedule's tier lookup returns
\* for the counter's current value.
C1_CachedMultMatchesSchedule ==
    /\ meter.instructions_current_tier_mult
         = instruction_tier(meter.cost_table, meter.instructions_executed)[1]
    /\ meter.stack_height_current_tier_mult
         = stack_height_tier(meter.cost_table, meter.stack_height_current)[1]
    /\ meter.stack_size_current_tier_mult
         = stack_size_tier(meter.cost_table, meter.stack_size_current)[1]

\* An arithmetic overflow occurs in a charge with deltas `a` on meter `m`: in
\* a counter addition, in a product, or in the sum of the products.
Overflows(m, a) ==
    \/ CounterOverflows(m, a)
    \/ /\ ~CounterOverflows(m, a)
       /\ \/ ProductOverflows(m, a)
          \/ /\ ~ProductOverflows(m, a)
             /\ ExactCost(m, a) > MaxU64

\* A delta of the charge is u64::MAX in one dimension (instructions, pushes, size_in).
MaxDelta(a) == a[1] = MaxU64 \/ a[2] = MaxU64 \/ a[4] = MaxU64

\* C2: with metering on, a charge that reaches the deduction succeeds iff its
\* computed cost is <= gas_left, a success leaves gas_left - cost (0 when they
\* are equal), and a failure is OUT_OF_GAS with gas_left set to 0; with budget
\* 1000 and cost 10 per call, calls 1..100 succeed and call 101 fails first.
C2_SucceedsIffCostWithinGasLeft ==
    /\ (last.op \in ChargeOps /\ last.pre.charge /\ last.err \in {"OK", "OUT_OF_GAS"})
         => /\ (last.err = "OK") <=> (last.cost <= last.pre.gas_left)
            /\ last.err = "OK" => meter.gas_left = last.pre.gas_left - last.cost
            /\ last.err = "OUT_OF_GAS" => meter.gas_left = 0
    /\ (driver = "load_loop" /\ nops \in 1..100)
         => /\ last.err = "OK"
            /\ last.cost = 10
            /\ meter.gas_left = 1000 - 10 * nops
    /\ (driver = "load_loop" /\ nops = 101)
         => /\ last.err = "OUT_OF_GAS"
            /\ meter.gas_left = 0

\* C2 witness: the 101st call of the load loop found gas_left 0 after the
\* 100th call had taken exactly what was left, and failed with OUT_OF_GAS.
C2_Witness ==
    /\ driver = "load_loop"
    /\ nops = 101
    /\ last.pre.gas_left = 0
    /\ last.cost = 10
    /\ last.err = "OUT_OF_GAS"
    /\ meter.gas_left = 0

\* C3: over a sequence of calls all made with metering on, as long as no call
\* has failed gas_left equals the budget minus the sum of the costs returned
\* (and native amounts taken); the first call to fail either overflowed or
\* would have taken the sum past the budget.
C3_GasLeftIsBudgetMinusCosts ==
    /\ (hist.metered /\ hist.fails = 0)
         => meter.gas_left = budget - hist.sum_cost - hist.sum_amount
    /\ (hist.metered /\ hist.fails = 1 /\ last.err # "OK" /\ last.op # "hook")
         => \/ last.err \in {"ARITHMETIC_ERROR", "PANIC"} /\ Overflows(last.pre, last.args)
            \/ /\ last.err = "PANIC"
               /\ last.pre.execution_gas_used > MaxU64 - last.cost
            \/ /\ last.err = "OUT_OF_GAS"
               /\ hist.sum_cost + hist.sum_amount + last.cost + last.amount > budget

\* C3 witness: two successful metered charges with non-zero costs.
C3_Witness ==
    /\ hist.metered
    /\ hist.fails = 0
    /\ nops = 2
    /\ hist.sum_cost > last.cost
    /\ last.cost > 0
    /\ meter.gas_left = budget - hist.sum_cost

\* C4: every arithmetic overflow in a charge (counter addition, product, or
\* the sum of the three products) makes the charge return ARITHMETIC_ERROR.
C4_OverflowIsArithmeticError ==
    (last.op \in ChargeOps /\ Overflows(last.pre, last.args))
        => last.err = "ARITHMETIC_ERROR"

\* C5 as stated: a charge with a u64::MAX delta in one dimension returns
\* ARITHMETIC_ERROR and leaves gas_left unchanged, under either schedule.
C5_MaxDeltaIsArithmeticError ==
    (last.op \in ChargeOps /\ MaxDelta(last.args))
        => /\ last.err = "ARITHMETIC_ERROR"
           /\ meter.gas_left = last.pre.gas_left

\* C5 amended: a charge with a u64::MAX delta in one dimension leaves
\* gas_left unchanged; under the initial schedule it returns
\* ARITHMETIC_ERROR; under the zero schedule it returns ARITHMETIC_ERROR
\* exactly when a counter addition overflows and otherwise succeeds at cost 0.
C5_MaxDeltaAmended ==
    (last.op \in ChargeOps /\ MaxDelta(last.args))
        => /\ meter.gas_left = last.pre.gas_left
           /\ last.err \in {"ARITHMETIC_ERROR", "OK"}
           /\ meter.cost_table = "initial" => last.err = "ARITHMETIC_ERROR"
           /\ meter.cost_table = "zero"
                => /\ (last.err = "ARITHMETIC_ERROR")
                         <=> CounterOverflows(last.pre, last.args)
                   /\ last.err = "OK" => last.cost = 0

\* C5 witness: under the initial schedule, with metering on and gas left, a
\* charge with a u64::MAX delta was refused.
C5_Witness ==
    /\ last.op \in ChargeOps
    /\ MaxDelta(last.args)
    /\ meter.cost_table = "initial"
    /\ last.pre.charge
    /\ last.pre.gas_left > 0
    /\ nops = 2
    /\ last.err = "ARITHMETIC_ERROR"
    /\ meter.gas_left = last.pre.gas_left

\* C6: after a sequence of successful charges, stack_height_current is the
\* running sum of pushes minus saturating pops, stack_size_current the running
\* sum of size_in minus saturating size_out, and each high-water mark the
\* maximum its counter has taken.
C6_CountersAreRunningSums ==
    (hist.fails = 0)
        => /\ meter.stack_height_current = hist.sum_height
           /\ meter.stack_size_current = hist.sum_size
           /\ meter.stack_height_high_water_mark = hist.max_height
           /\ meter.stack_size_high_water_mark = hist.max_size

\* C7: a charge that takes the instruction count past a tier breakpoint is
\* priced at the new tier on that call; in the branch loop on the initial
\* schedule calls 1..3000 cost 1 at multiplier 1 and call 3001 costs 2 and
\* leaves the cached instruction multiplier at 2.
C7_CrossingPricedAtNewTier ==
    /\ (driver = "branch_loop" /\ nops \in 1..3000)
         => /\ last.err = "OK"
            /\ last.cost = 1
            /\ meter.instructions_current_tier_mult = 1
    /\ (driver = "branch_loop" /\ nops = 3001)
         => /\ last.err = "OK"
            /\ last.cost = 2
            /\ meter.instructions_current_tier_mult = 2
    /\ (/\ last.op \in ChargeOps
        /\ last.err = "OK"
        /\ last.args[2] = 0
        /\ last.args[4] = 0
        /\ last.pre.instructions_next_tier_start.some
        /\ meter.instructions_executed > last.pre.instructions_next_tier_start.v)
         => /\ meter.instructions_current_tier_mult
                 = instruction_tier(meter.cost_table, meter.instructions_executed)[1]
            /\ last.cost = meter.instructions_current_tier_mult * last.args[1]

\* C7 witness: the 3001st call of the branch loop, priced at multiplier 2.
C7_Witness ==
    /\ driver = "branch_loop"
    /\ nops = 3001
    /\ last.pre.instructions_current_tier_mult = 1
    /\ meter.instructions_current_tier_mult = 2
    /\ last.cost = 2

\* C8: a successful charge returns exactly mult_instr * instr + mult_size *
\* size_in + mult_height * pushes, with the multipliers cached after its own
\* counter updates, and with metering on takes exactly that from gas_left.
C8_CostIsSumOfProducts ==
    (last.op \in ChargeOps /\ last.err = "OK")
        => /\ ~ProductOverflows(last.pre, last.args)
           /\ last.cost = ExactCost(last.pre, last.args)
           /\ last.pre.charge => meter.gas_left = last.pre.gas_left - last.cost

\* C9: under the zero schedule (which new_unmetered uses as well) every call
\* of charge that succeeds has cost 0, whatever the deltas and the counters.
C9_ZeroScheduleCostsNothing ==
    (meter.cost_table = "zero" /\ last.op \in ChargeOps \cup {"native"}
     /\ last.err = "OK")
        => last.cost = 0

\* C9 witness: under the zero schedule a charge with non-zero deltas on
\* non-zero counters succeeded.
C9_Witness ==
    /\ meter.cost_table = "zero"
    /\ last.op \in ChargeOps
    /\ last.err = "OK"
    /\ last.args[1] > 0
    /\ last.args[2] > 0
    /\ last.args[4] > 0
    /\ last.pre.instructions_executed > 0
    /\ last.pre.stack_size_current > 0
    /\ last.cost = 0

\* The meter was built with the zero schedule and budget 0, metering has been
\* on for every call, and the calls are those of the VM's entry points.
ZeroBudgetVm ==
    /\ driver = "vm"
    /\ meter.cost_table = "zero"
    /\ budget = 0
    /\ hist.metered
    /\ meter.charge

\* C10 as stated: on a meter with the zero schedule, budget 0 and metering
\* on, every entry-point call succeeds, gas_left stays 0 and execution_gas_used
\* and storage_gas_used stay 0.
C10_ZeroBudgetAllSucceed ==
    ZeroBudgetVm
        => /\ last.err = "OK"
           /\ meter.gas_left = 0
           /\ meter.execution_gas_used = 0
           /\ meter.storage_gas_used = 0

\* C10 amended: on such a meter gas_left, execution_gas_used and
\* storage_gas_used stay 0; a call fails only with ARITHMETIC_ERROR, when a
\* counter addition overflows, or with OUT_OF_GAS, when it is
\* charge_native_function with a non-zero amount, and in those cases it does fail.
C10_ZeroBudgetAmended ==
    ZeroBudgetVm
        => /\ meter.gas_left = 0
           /\ meter.execution_gas_used = 0
           /\ meter.storage_gas_used = 0
           /\ last.err \in {"OK", "ARITHMETIC_ERROR", "OUT_OF_GAS"}
           /\ (last.err = "ARITHMETIC_ERROR")
                 <=> (last.op # "hook" /\ CounterOverflows(last.pre, last.args))
           /\ (last.err = "OUT_OF_GAS")
                 <=> /\ last.op = "native"
                     /\ last.amount > 0
                     /\ ~CounterOverflows(last.pre, last.args)

\* C10 witness: on such a meter a native call's pre-execution charge and then
\* its post-execution charge with returned values both succeeded.
C10_Witness ==
    /\ ZeroBudgetVm
    /\ nops = 2
    /\ hist.fails = 0
    /\ last.op = "native"
    /\ last.args[2] > 0
    /\ last.args[4] > 0
    /\ last.pre.instructions_executed = 1
    /\ meter.gas_left = 0

\* The counters of a meter: their values, high-water marks, cached
\* multipliers and next breakpoints.
Counters(m) ==
    <<m.instructions_executed, m.instructions_current_tier_mult,
      m.instructions_next_tier_start,
      m.stack_height_current, m.stack_height_high_water_mark,
      m.stack_height_current_tier_mult, m.stack_height_next_tier_start,
      m.stack_size_current, m.stack_size_high_water_mark,
      m.stack_size_current_tier_mult, m.stack_size_next_tier_start>>

\* The last call's charge, made instead with metering on and gas to spare.
LastChargeMetered ==
    charge([last.pre EXCEPT !.charge = TRUE, !.gas_left = MaxU64], last.args[1],
           last.args[2], last.args[3], last.args[4], last.args[5], overflow_checks)

\* C11: a call made with metering off (charge, entry point or native
\* deduction, failing or not) leaves gas_left as it was, and when it succeeds
\* the counters, high-water marks and cached tiers end as the same charge
\* leaves them with metering on; after stop_metering, n <= 100 loads of one
\* push and size 1 leave stack height n, stack size n and gas_left = budget.
C11_UnmeteredKeepsGasAndCounts ==
    /\ (last.op # "new" /\ ~last.pre.charge)
         => meter.gas_left = last.pre.gas_left
    /\ (last.op \in ChargeOps \cup {"native"} /\ ~last.pre.charge /\ last.err = "OK")
         => /\ LastChargeMetered.err = "OK"
            /\ Counters(meter) = Counters(LastChargeMetered.m)
    /\ (driver = "unmetered_loop" /\ ~meter.charge)
         => /\ last.err = "OK"
            /\ meter.gas_left = budget
            /\ meter.stack_height_current = nops
            /\ meter.stack_size_current = nops
            /\ meter.instructions_executed = nops

\* C11 witness: the 100th load of the unmetered loop, gas_left still the budget.
C11_Witness ==
    /\ driver = "unmetered_loop"
    /\ ~meter.charge
    /\ nops = 100
    /\ meter.stack_height_current = 100
    /\ meter.stack_size_current = 100
    /\ meter.gas_left = budget
    /\ meter.execution_gas_used = 300

\* C12: no step of the meter (a charge that succeeds or fails, a native
\* deduction, a metering toggle) increases gas_left.
C12_GasLeftNeverIncreases ==
    [][meter'.gas_left <= meter.gas_left]_vars

\* C12 witness: after two calls, the last of which took gas, and after one
\* that ran out of gas.
C12_Witness ==
    /\ nops = 2
    /\ last.pre.charge
    /\ last.pre.gas_left < budget
    /\ \/ last.err = "OK" /\ 0 < meter.gas_left /\ meter.gas_left < last.pre.gas_left
       \/ last.err = "OUT_OF_GAS" /\ last.op = "native" /\ meter.gas_left = 0

\* C13: the tier lookup returns as multiplier the value of the largest key
\* <= x, or the default 1 when no key is <= x (the empty table included),
\* and as next breakpoint the smallest key > x, or none when there is no such key.
C13_TierLookup ==
    lookup.called
        => LET t == lookup.tiers
               x == lookup.current
               le == {k \in DOMAIN t : k <= x}
               gt == {k \in DOMAIN t : k > x}
           IN /\ \/ le = {} /\ lookup.out[1] = 1
                 \/ \E k \in le : (\A j \in le : j <= k) /\ lookup.out[1] = t[k]
              /\ \/ gt = {} /\ ~lookup.out[2].some
                 \/ \E k \in gt : /\ \A j \in gt : k <= j
                                  /\ lookup.out[2].some
                                  /\ lookup.out[2].v = k

\* C13 witness: a lookup at a key of the table that has a smaller key with
\* another multiplier and a larger key.
C13_Witness ==
    /\ lookup.called
    /\ lookup.current \in DOMAIN lookup.tiers
    /\ \E k \in DOMAIN lookup.tiers :
           /\ k = lookup.current - 1
           /\ lookup.tiers[k] # lookup.tiers[lookup.current]
    /\ lookup.out[1] = lookup.tiers[lookup.current]
    /\ lookup.out[2] = Some(lookup.current + 1)

\* The calls of the GasMeter entry points that charge.
FacadeOps == {"execution", "native_before", "native"}

\* C14: an entry point that charges (both native-call phases included) adds,
\* when it succeeds, exactly the cost its charge returned to
\* execution_gas_used, and leaves execution_gas_used unchanged when it fails.
C14_FacadeAddsCostToExecution ==
    (last.op \in FacadeOps)
        => /\ last.err = "OK"
                => meter.execution_gas_used = last.pre.execution_gas_used + last.cost
           /\ last.err # "OK"
                => meter.execution_gas_used = last.pre.execution_gas_used

\* C15: the pre-execution charge of a native call with n arguments adds 1 to
\* instructions_executed, pushes nothing and pops n; the post-execution charge
\* with k returned values of total size s adds nothing to
\* instructions_executed, pushes k, adds s to the stack size and then takes
\* the amount; when gas suffices gas_left has gone down by the pre-call cost,
\* the post-call stack cost and the amount.
C15_NativeCallTwoPhases ==
    /\ (last.op = "native_before" /\ last.err = "OK")
         => /\ meter.instructions_executed = last.pre.instructions_executed + 1
            /\ meter.stack_height_current
                 = saturating_sub(last.pre.stack_height_current, last.args[3])
            /\ meter.stack_height_high_water_mark
                 = last.pre.stack_height_high_water_mark
            /\ meter.stack_size_current = last.pre.stack_size_current
            /\ last.pre.charge => meter.gas_left = last.pre.gas_left - last.cost
    /\ (last.op = "native" /\ last.err = "OK")
         => /\ meter.instructions_executed = last.pre.instructions_executed
            /\ meter.stack_height_current = last.pre.stack_height_current + last.args[2]
            /\ meter.stack_size_current = last.pre.stack_size_current + last.args[4]
            /\ last.pre.charge
                 => meter.gas_left = last.pre.gas_left - last.cost - last.amount
    /\ (driver = "native_call" /\ nops = 3)
         => /\ last.op = "native_before"
            /\ last.err = "OK"
            /\ last.cost = 1
            /\ meter.gas_left = budget - 20 - 1
    /\ (driver = "native_call" /\ nops = 4 /\ last.err = "OK")
         => /\ last.op = "native"
            /\ last.cost = last.args[2] + last.args[4]
            /\ meter.gas_left = budget - 20 - 1 - last.cost - last.amount

\* C15 witness: after two loads and a pre-execution charge with two
\* arguments, the post-execution charge with one returned value of size 8 and
\* amount 500 has taken 1 + 9 + 500.
C15_Witness ==
    /\ driver = "native_call"
    /\ nops = 4
    /\ last.op = "native"
    /\ last.err = "OK"
    /\ last.args = <<0, 1, 0, 8, 0>>
    /\ last.amount = 500
    /\ last.pre.stack_height_current = 0
    /\ last.pre.instructions_executed = 3
    /\ meter.instructions_executed = 3
    /\ meter.gas_left = 1000 - 20 - 510

\* C16: a second meter created with the same schedule and budget and given
\* the same charges and metering toggles has the same outcome at every step
\* and the same gas_left, high-water marks, execution_gas_used and storage_gas_used.
C16_ReplicasAgree ==
    (driver = "replicas")
        => /\ replica.err = last.err
           /\ replica.cost = last.cost
           /\ replica.m.gas_left = meter.gas_left
           /\ replica.m.stack_height_high_water_mark = meter.stack_height_high_water_mark
           /\ replica.m.stack_size_high_water_mark = meter.stack_size_high_water_mark
           /\ replica.m.execution_gas_used = meter.execution_gas_used
           /\ replica.m.storage_gas_used = meter.storage_gas_used

\* C17: a charge that fails with OUT_OF_GAS keeps the updates of its push,
\* instruction and size phases (counters, high-water marks, cached
\* multipliers and next breakpoints), does not apply its pops, and does not
\* increase execution_gas_used.
C17_OutOfGasKeepsCounterUpdates ==
    (last.op \in ChargeOps \cup {"native"} /\ last.err = "OUT_OF_GAS")
        => /\ meter.stack_height_current = last.pre.stack_height_current + last.args[2]
           /\ meter.instructions_executed = last.pre.instructions_executed + last.args[1]
           /\ meter.stack_size_current = last.pre.stack_size_current + last.args[4]
           /\ meter.stack_height_high_water_mark
                = Max2(last.pre.stack_height_high_water_mark, meter.stack_height_current)
           /\ meter.stack_size_high_water_mark
                = Max2(last.pre.stack_size_high_water_mark, meter.stack_size_current)
           /\ Counters(meter) = Counters(Counted(last.pre, last.args))
           /\ meter.execution_gas_used = last.pre.execution_gas_used

\* C17 witness: a charge with pushes and pops ran out of gas on a stack that
\* already held values: the pushes are counted, the pops are not.
C17_Witness ==
    /\ last.op \in ChargeOps
    /\ last.err = "OUT_OF_GAS"
    /\ last.args[2] > 0
    /\ last.args[3] > 0
    /\ last.pre.stack_height_current > 0
    /\ meter.stack_height_current = last.pre.stack_height_current + last.args[2]
    /\ meter.stack_height_high_water_mark > last.pre.stack_height_high_water_mark

\* C18 as stated: after a charge that fails with OUT_OF_GAS the meter is as
\* it was before the charge, except that gas_left is 0.
C18_OutOfGasLeavesStateUntouched ==
    (last.op \in ChargeOps /\ last.err = "OUT_OF_GAS")
        => last.post = [last.pre EXCEPT !.gas_left = 0]

\* C18 amended: a call that fails with OUT_OF_GAS sets gas_left to 0 and
\* leaves the schedule, the metering flag and the classification totals as
\* they were; no counter or high-water mark is below its prior value, and a
\* failing charge has moved at least one counter, so the prior state is kept
\* whole only when a native amount runs out of gas with no values returned.
C18_OutOfGasFrameAmended ==
    (last.op \in ChargeOps \cup {"native"} /\ last.err = "OUT_OF_GAS")
        => /\ meter.gas_left = 0
           /\ meter.cost_table = last.pre.cost_table
           /\ last.post.charge = last.pre.charge
           /\ meter.execution_gas_used = last.pre.execution_gas_used
           /\ meter.storage_gas_used = last.pre.storage_gas_used
           /\ meter.instructions_executed >= last.pre.instructions_executed
           /\ meter.stack_height_current >= last.pre.stack_height_current
           /\ meter.stack_size_current >= last.pre.stack_size_current
           /\ meter.stack_height_high_water_mark >= last.pre.stack_height_high_water_mark
           /\ meter.stack_size_high_water_mark >= last.pre.stack_size_high_water_mark
           /\ last.op \in ChargeOps => Counters(meter) # Counters(last.pre)
           /\ (last.args[1] = 0 /\ last.args[2] = 0 /\ last.args[4] = 0)
                => /\ last.op = "native"
                   /\ last.post = [last.pre EXCEPT !.gas_left = 0]

\* C18 witness: an entry point ran out of gas on a meter that had gas left
\* and had classified earlier costs: gas_left is 0, execution_gas_used is
\* kept, the instruction count has moved.
C18_Witness ==
    /\ last.op \in ChargeOps
    /\ last.err = "OUT_OF_GAS"
    /\ last.pre.gas_left > 0
    /\ last.pre.execution_gas_used > 0
    /\ meter.gas_left = 0
    /\ meter.execution_gas_used = last.pre.execution_gas_used
    /\ meter.instructions_executed > last.pre.instructions_executed

\* C19: in every reachable state each high-water mark is >= its counter, and
\* no step decreases a high-water mark or instructions_executed.
C19_MarksAndCountMonotone ==
    /\ [](/\ meter.stack_height_high_water_mark >= meter.stack_height_current
          /\ meter.stack_size_high_water_mark >= meter.stack_size_current)
    /\ [][/\ meter'.stack_height_high_water_mark >= meter.stack_height_high_water_mark
          /\ meter'.stack_size_high_water_mark >= meter.stack_size_high_water_mark
          /\ meter'.instructions_executed >= meter.instructions_executed]_vars

\* C19 witness: a charge pushed onto a stack lower than its high-water mark:
\* the mark stayed, above the current height, and the instruction count grew.
C19_Witness ==
    /\ last.op \in ChargeOps
    /\ last.err = "OK"
    /\ last.args[2] > 0
    /\ last.pre.stack_height_high_water_mark > last.pre.stack_height_current
    /\ meter.stack_height_high_water_mark = last.pre.stack_height_high_water_mark
    /\ meter.stack_height_high_water_mark > meter.stack_height_current
    /\ meter.instructions_executed > last.pre.instructions_executed

\* C20: every call of the meter ends in success, OUT_OF_GAS or
\* ARITHMETIC_ERROR; no call ends abnormally on an overflow.
C20_OnlyTwoErrorOutcomes ==
    last.err \in {"OK", "OUT_OF_GAS", "ARITHMETIC_ERROR"}

\* C21: charge_io_write, charge_change_set, charge_drop_frame,
\* charge_load_resource and charge_ld_const_after_deserialization always
\* succeed and leave the whole meter as it was (gas_left, counters, high-water
\* marks, cached tiers, classification totals); storage_gas_used is 0 in
\* every reachable state.
C21_HooksChangeNothing ==
    /\ (last.op = "hook") => (last.err = "OK" /\ last.post = last.pre)
    /\ meter.storage_gas_used = 0

\* C21 witness: a hook called after a charge that had moved the counters,
\* taken gas and been classified.
C21_Witness ==
    /\ last.op = "hook"
    /\ nops = 2
    /\ last.pre.execution_gas_used > 0
    /\ last.pre.gas_left < budget
    /\ last.pre.stack_height_current > 0
    /\ last.err = "OK"
    /\ meter = last.pre

\* The last call's charge, made instead with no pops.
LastChargeUnpopped ==
    charge(last.pre, last.args[1], last.args[2], 0, last.args[4], last.args[5],
           overflow_checks)

\* C22: pop_stack never fails and saturates: a successful charge with pops q
\* from the post-push height h leaves stack_height_current = max(0, h - q),
\* popping more than the height clamps it to 0, and the pops change neither
\* the outcome, the cost, gas_left nor the high-water mark.
C22_PopStackSaturates ==
    (last.op \in ChargeOps)
        => /\ \/ last.err = LastChargeUnpopped.err
              \/ last.err = "PANIC" /\ LastChargeUnpopped.err = "OK"
           /\ last.err = "OK"
                => LET h == last.pre.stack_height_current + last.args[2]
                       q == last.args[3]
                   IN /\ LastChargeUnpopped.m.stack_height_current = h
                      /\ last.post.stack_height_current = IF q > h THEN 0 ELSE h - q
                      /\ last.cost = LastChargeUnpopped.val
                      /\ last.post.gas_left = LastChargeUnpopped.m.gas_left
                      /\ last.post.stack_height_high_water_mark
                           = LastChargeUnpopped.m.stack_height_high_water_mark
                      /\ last.post.stack_height_high_water_mark >= h

\* C22 witness: a charge popped more values than the stack held after its
\* push: the height is 0, the call succeeded and the mark is the height pushed to.
C22_Witness ==
    /\ last.op \in ChargeOps
    /\ last.err = "OK"
    /\ last.pre.stack_height_current + last.args[2] > 0
    /\ last.args[3] > last.pre.stack_height_current + last.args[2]
    /\ last.post.stack_height_current = 0
    /\ last.post.stack_height_high_water_mark
         = last.pre.stack_height_current + last.args[2]
    /\ last.pre.charge
    /\ last.post.gas_left = last.pre.gas_left - last.cost
    /\ last.cost > 0

\* The size_out values the last call is made again with.
SizeOuts == {0, 8, MaxU64}

\* The last call (a charge or an entry point that forwards to one) made again
\* from the same meter with size_out `decr_size`.
LastWithSizeOut(decr_size) ==
    IF last.op = "charge"
    THEN charge(last.pre, last.args[1], last.args[2], last.args[3], last.args[4],
                decr_size, overflow_checks)
    ELSE charge_internal_execution(last.pre, last.args[1], last.args[2], last.args[3],
                                   last.args[4], decr_size, overflow_checks)

C24_DuplicateKeyTakesLaterValue ==
    (lookup.called /\ lookup.tiers = CostTable("initial").stack_size_tiers)
        => /\ lookup.out[1] # 29
           /\ (11500 <= lookup.current /\ lookup.current < 20000)
                => lookup.out = <<50, Some(20000)>>

\* C24 witness: the lookup at stack size 11500 on the initial schedule.
C24_Witness ==
    /\ lookup.called
    /\ lookup.tiers = CostTable("initial").stack_size_tiers
    /\ lookup.default = STACK_SIZE_TIER_DEFAULT
    /\ lookup.current = 11500
    /\ lookup.out = <<50, Some(20000)>>

\* C25: for the two counters that only grow (instructions_executed and
\* stack_size_current), the cached multiplier differs from the multiplier the
\* schedule gives the counter's current value only in states where the
\* counter equals the cached next_tier_start exactly; in every other
\* reachable state the two are equal.
C25_StaleOnlyAtBreakpoint ==
    /\ (meter.instructions_current_tier_mult
           # instruction_tier(meter.cost_table, meter.instructions_executed)[1])
         => /\ meter.instructions_next_tier_start.some
            /\ meter.instructions_executed = meter.instructions_next_tier_start.v
    /\ (meter.stack_size_current_tier_mult
           # stack_size_tier(meter.cost_table, meter.stack_size_current)[1])
         => /\ meter.stack_size_next_tier_start.some
            /\ meter.stack_size_current = meter.stack_size_next_tier_start.v

\* C25 witness: the branch loop after 3000 calls: the count equals the cached
\* breakpoint 3000, the cached multiplier is 1 and the schedule gives 2.
C25_Witness ==
    /\ driver = "branch_loop"
    /\ nops = 3000
    /\ meter.instructions_executed = 3000
    /\ meter.instructions_next_tier_start = Some(3000)
    /\ meter.instructions_current_tier_mult = 1
    /\ instruction_tier(meter.cost_table, meter.instructions_executed)[1] = 2

\* C26: the stack-height tier is a ratchet: the pops of a charge leave the
\* cached height multiplier and next breakpoint as its push left them, so
\* pushes made after the height crossed a breakpoint and was popped back
\* below it are still priced at the higher multiplier; under the schedules
\* in use (multipliers increasing with the key) no step decreases any of the
\* three cached multipliers.
C26_HeightTierIsRatchet ==
    /\ [](/\ (last.op \in ChargeOps /\ last.err = "OK")
               => LET pushed == push_stack(last.pre, last.args[2]).m
                  IN /\ last.post.stack_height_current_tier_mult
                          = pushed.stack_height_current_tier_mult
                     /\ last.post.stack_height_next_tier_start
                          = pushed.stack_height_next_tier_start
           /\ (/\ last.op \in ChargeOps
               /\ last.err = "OK"
               /\ last.pre.stack_height_next_tier_start.some
               /\ last.pre.stack_height_current + last.args[2]
                    <= last.pre.stack_height_next_tier_start.v)
               => /\ last.post.stack_height_current_tier_mult
                       = last.pre.stack_height_current_tier_mult
                  /\ (last.args[1] = 0 /\ last.args[4] = 0)
                       => last.cost
                            = last.pre.stack_height_current_tier_mult * last.args[2])
    /\ [][/\ meter'.stack_height_current_tier_mult >= meter.stack_height_current_tier_mult
          /\ meter'.stack_size_current_tier_mult >= meter.stack_size_current_tier_mult
          /\ meter'.instructions_current_tier_mult
               >= meter.instructions_current_tier_mult]_vars

\* C26 witness: the height had crossed 400 and been popped back to 0; the
\* next push of one value, at height 1, cost 2 where the schedule's tier for
\* height 1 has multiplier 1.
C26_Witness ==
    /\ last.op \in ChargeOps
    /\ last.err = "OK"
    /\ nops = 2
    /\ last.pre.stack_height_current = 0
    /\ last.pre.stack_height_high_water_mark > 400
    /\ last.pre.stack_height_current_tier_mult = 2
    /\ last.args[1] = 0
    /\ last.args[2] = 1
    /\ last.args[4] = 0
    /\ last.cost = 2
    /\ stack_height_tier(last.pre.cost_table, 1)[1] = 1
    /\ last.post.stack_height_current_tier_mult = 2

\* C27: as long as every call has been made with metering on,
\* execution_gas_used <= budget - gas_left in every reachable state, with
\* equality for calls made through the entry points as long as none has
\* failed and charge_native_function has not been called.
C27_ExecutionWithinGasTaken ==
    /\ hist.metered => meter.execution_gas_used <= budget - meter.gas_left
    /\ (/\ hist.metered
        /\ hist.fails = 0
        /\ hist.natives = 0
        /\ driver \notin {"engine", "replicas"})
         => meter.execution_gas_used = budget - meter.gas_left

\* C27 witness: with metering on, an entry point charged and classified its
\* cost, then charge_native_function took a stack cost and an amount that
\* were not classified: execution_gas_used is below budget - gas_left.
C27_Witness ==
    /\ hist.metered
    /\ hist.fails = 0
    /\ nops = 2
    /\ last.op = "native"
    /\ last.cost > 0
    /\ last.amount > 0
    /\ last.pre.execution_gas_used > 0
    /\ last.pre.execution_gas_used = budget - last.pre.gas_left
    /\ meter.execution_gas_used = last.pre.execution_gas_used
    /\ meter.execution_gas_used < budget - meter.gas_left

\* C28: while metering is off, an entry point that forwards to the charge
\* engine and succeeds still computes the cost the cached multipliers give
\* and adds it to execution_gas_used, and takes nothing from gas_left (so
\* execution_gas_used can exceed budget - gas_left after a stop_metering period).
C28_UnmeteredStillClassifies ==
    (last.op \in {"execution", "native_before"} /\ ~last.pre.charge /\ last.err = "OK")
        => /\ LastChargeMetered.err = "OK"
           /\ last.cost = LastChargeMetered.val
           /\ last.post.gas_left = last.pre.gas_left
           /\ last.post.execution_gas_used = last.pre.execution_gas_used + last.cost

\* The meter after the counter phases of a charge with deltas `a` on meter
\* `m` that ran before the first phase to fail: the `?` of a failing phase
\* returns before the later ones.
CompletedPhases(m, a) ==
    LET p == push_stack(m, a[2])
        i == increase_instruction_count(p.m, a[1])
        z == increase_stack_size(i.m, a[4])
    IN IF p.err # "OK" THEN m
       ELSE IF i.err # "OK" THEN p.m
       ELSE IF z.err # "OK" THEN i.m
       ELSE z.m

\* C29: a charge that returns ARITHMETIC_ERROR leaves gas_left and
\* execution_gas_used as they were and applies no pops; the counter updates
\* of the phases that completed before the failing one persist (if the
\* instruction-count addition overflows, the stack height, its high-water
\* mark and its cached tier reflect the pushes), and the counter whose
\* addition overflowed, like those of the later phases, keeps its old value.
C29_ArithmeticErrorKeepsEarlierPhases ==
    (last.op \in ChargeOps \cup {"native"} /\ last.err = "ARITHMETIC_ERROR")
        => LET a == last.args
               push_overflows == last.pre.stack_height_current > MaxU64 - a[2]
               count_overflows == last.pre.instructions_executed > MaxU64 - a[1]
               size_overflows == last.pre.stack_size_current > MaxU64 - a[4]
           IN /\ last.post.gas_left = last.pre.gas_left
              /\ last.post.execution_gas_used = last.pre.execution_gas_used
              /\ last.post.storage_gas_used = last.pre.storage_gas_used
              /\ last.post.charge = last.pre.charge
              /\ Counters(last.post) = Counters(CompletedPhases(last.pre, a))
              /\ push_overflows => Counters(last.post) = Counters(last.pre)
              /\ ~push_overflows
                   => /\ last.post.stack_height_current
                           = last.pre.stack_height_current + a[2]
                      /\ last.post.stack_height_high_water_mark
                           = Max2(last.pre.stack_height_high_water_mark,
                                  last.post.stack_height_current)
                      /\ last.post.stack_height_current_tier_mult
                           = push_stack(last.pre, a[2]).m.stack_height_current_tier_mult
              /\ (push_overflows \/ count_overflows)
                   => /\ last.post.instructions_executed = last.pre.instructions_executed
                      /\ last.post.stack_size_current = last.pre.stack_size_current
              /\ (~push_overflows /\ ~count_overflows)
                   => /\ last.post.instructions_executed
                           = last.pre.instructions_executed + a[1]
                      /\ last.post.stack_size_current
                           = IF size_overflows
                             THEN last.pre.stack_size_current
                             ELSE last.pre.stack_size_current + a[4]

\* C29 witness: a charge with one push and one pop whose instruction-count
\* addition overflowed: the push is counted and marked, the pop is not
\* applied, the instruction count and the stack size are as before.
C29_Witness ==
    /\ last.op \in ChargeOps
    /\ last.err = "ARITHMETIC_ERROR"
    /\ last.args[1] > 0
    /\ last.args[2] > 0
    /\ last.args[3] > 0
    /\ last.args[4] > 0
    /\ last.pre.instructions_executed > MaxU64 - last.args[1]
    /\ last.post.instructions_executed = last.pre.instructions_executed
    /\ last.post.stack_height_current = last.pre.stack_height_current + last.args[2]
    /\ last.post.stack_height_high_water_mark > last.pre.stack_height_high_water_mark
    /\ last.post.stack_size_current = last.pre.stack_size_current
    /\ last.post.gas_left = last.pre.gas_left
    /\ last.pre.gas_left > 0

\* The stack charge of the last call of charge_native_function, on its own.
LastNativeStackCharge ==
    charge(last.pre, 0, last.args[2], 0, last.args[4], 0, overflow_checks)

\* C30: charge_native_function deducts its stack charge and the
\* host-reported amount in two steps: when the stack charge succeeds and the
\* amount exceeds what gas_left is then, the call returns OUT_OF_GAS with
\* gas_left = 0 and the pushes and size increase of the returned values stay
\* applied; the amount is deducted whatever the schedule, so with metering on
\* a non-zero amount is taken under the zero schedule too.
C30_NativeAmountDeductedSeparately ==
    (last.op = "native" /\ last.pre.charge)
        => LET c == LastNativeStackCharge
           IN /\ c.err # "OK" => (last.err = c.err /\ last.post = c.m)
              /\ c.err = "OK"
                   => /\ last.cost = c.val
                      /\ Counters(last.post) = Counters(c.m)
                      /\ last.post.stack_height_current
                           = last.pre.stack_height_current + last.args[2]
                      /\ last.post.stack_size_current
                           = last.pre.stack_size_current + last.args[4]
                      /\ last.post.execution_gas_used = last.pre.execution_gas_used
                      /\ last.amount > c.m.gas_left
                           => (last.err = "OUT_OF_GAS" /\ last.post.gas_left = 0)
                      /\ last.amount <= c.m.gas_left
                           => /\ last.err = "OK"
                              /\ last.post.gas_left
                                   = last.pre.gas_left - c.val - last.amount
                      /\ last.pre.cost_table = ZERO_COST_SCHEDULE
                           => /\ c.val = 0
                              /\ last.amount <= last.pre.gas_left
                                   => last.post.gas_left
                                        = last.pre.gas_left - last.amount

\* C30 witness: with metering on, the stack charge of a returned value was
\* paid, the amount exceeded what was left, and the call ran out of gas with
\* the returned value counted on the stack.
C30_Witness ==
    /\ last.op = "native"
    /\ last.pre.charge
    /\ last.err = "OUT_OF_GAS"
    /\ last.args[2] > 0
    /\ last.args[4] > 0
    /\ last.cost > 0
    /\ last.cost < last.pre.gas_left
    /\ last.amount > last.pre.gas_left - last.cost
    /\ last.post.gas_left = 0
    /\ last.post.stack_height_current = last.pre.stack_height_current + last.args[2]
    /\ last.post.stack_size_current = last.pre.stack_size_current + last.args[4]

\* The cached next breakpoint `next` bounds the counter value `v`, and when
\* it is absent no key of `tiers` is above `reached`, the largest value the
\* counter has taken.
NextTierBounds(next, v, reached, tiers) ==
    /\ next.some => v <= next.v
    /\ ~next.some => \A k \in DOMAIN tiers : k <= reached

\* C31: for each of the three counters, in every reachable state, a cached
\* next_tier_start n has the counter's current value <= n, and when it is
\* absent no key of the schedule is greater than the largest value the
\* counter has reached.
C31_NextTierStartBoundsCounter ==
    /\ NextTierBounds(meter.instructions_next_tier_start, meter.instructions_executed,
                      meter.instructions_executed,
                      CostTable(meter.cost_table).instruction_tiers)
    /\ NextTierBounds(meter.stack_height_next_tier_start, meter.stack_height_current,
                      hist.max_height, CostTable(meter.cost_table).stack_height_tiers)
    /\ NextTierBounds(meter.stack_size_next_tier_start, meter.stack_size_current,
                      hist.max_size, CostTable(meter.cost_table).stack_size_tiers)

\* C31 witness: under the initial schedule the stack size has passed the
\* last key 20000 and has no next breakpoint, the height sits exactly on its
\* cached breakpoint 400, and the instruction count is below its breakpoint.
C31_Witness ==
    /\ meter.cost_table = "initial"
    /\ ~meter.stack_size_next_tier_start.some
    /\ hist.max_size > 20000
    /\ meter.stack_height_next_tier_start = Some(400)
    /\ meter.stack_height_current = 400
    /\ meter.instructions_next_tier_start = Some(3000)
    /\ meter.instructions_executed < 3000

====
